---- MODULE Spec2Model ----
(***************************************************************************)
(* Model of the two scripts of increasing-subset:                          *)
(*   generate.py  synthesizes a noisy series and dumps it as a JSON array  *)
(*   redraw.py    locates a list of target values in a loaded series       *)
(*                (find_indices) and renders two charts                    *)
(* Positions are 0-based as in Python; a TLA+ sequence s holds the Python  *)
(* element s[p] at s[p + 1].                                               *)
(***************************************************************************)
EXTENDS Integers, Sequences, FiniteSets, TLC

VARIABLES script, pc, values, ys, x, i, k, x_result, scatter_png, plot_png,
          Y, NY, noise, numbers_json, numbers_png

vars == <<script, pc, values, ys, x, i, k, x_result, scatter_png, plot_png,
          Y, NY, noise, numbers_json, numbers_png>>

generateVars == <<Y, NY, noise, numbers_json, numbers_png>>

\* ---- bounds of the model ----
MaxLen == 5
MaxTargets == 3
NumVals == 2
MaxY == 2
MaxNY == 2

Vals == 1..NumVals
NoiseSet == {-5500, 0, 1010}

SeqsUpTo(S, m) == UNION {[1..l -> S] : l \in 0..m}

\* ---- values that stand for "no object" ----
NotFound == -1
\* the module-level name x before line 22 has assigned it
NoResult == [assigned |-> FALSE, list |-> <<>>]
\* numbers.json before json.dump has written it
NoFile == [written |-> FALSE, array |-> <<>>]

\* ------------------------------------------------------------------------
\* redraw.py
\* ------------------------------------------------------------------------

\* list.index(y, start): linear scan from position p, first equal element
RECURSIVE Scan(_, _, _)
Scan(lst, y, p) ==
  IF p >= Len(lst) THEN NotFound
  ELSE IF lst[p + 1] = y THEN p
  ELSE Scan(lst, y, p + 1)

\* variant: values.index(y), every search restarts at position 0
index_from_zero(lst, y, start) == Scan(lst, y, 0)

\* variant: values.index(y, i + 1), the start position itself is skipped
index_skip_start(lst, y, start) == Scan(lst, y, start + 1)

\* variant: the last occurrence at or after start instead of the first
index_last(lst, y, start) ==
  LET hits == {q \in start..(Len(lst) - 1) : lst[q + 1] = y}
  IN IF hits = {} THEN NotFound
     ELSE CHOOSE q \in hits : \A r \in hits : q >= r

\* values.index(y, i) as called by find_indices
index(lst, y, start) == Scan(lst, y, start)

\* variant: the matched element is cleared in the series to mark it used
LoopMatchClearing ==
  /\ script = "redraw" /\ pc = "find_indices"
  /\ k < Len(ys)
  /\ index(values, ys[k + 1], i) # NotFound
  /\ i' = index(values, ys[k + 1], i)
  /\ x' = Append(x, i')
  /\ k' = k + 1
  /\ values' = [values EXCEPT ![i' + 1] = 0]
  /\ UNCHANGED <<script, pc, ys, x_result, scatter_png, plot_png>>
  /\ UNCHANGED <<Y, NY, noise, numbers_json, numbers_png>>

\* variant: the iteration moves the cursor but never goes on to the next target
LoopMatchNoAdvance ==
  /\ script = "redraw" /\ pc = "find_indices"
  /\ k < Len(ys)
  /\ index(values, ys[k + 1], i) # NotFound
  /\ i' = index(values, ys[k + 1], i)
  /\ UNCHANGED <<script, pc, values, ys, x, k, x_result, scatter_png, plot_png>>
  /\ UNCHANGED <<Y, NY, noise, numbers_json, numbers_png>>

\* one iteration of "for y in ys" in which the target is found
LoopMatch ==
  /\ script = "redraw" /\ pc = "find_indices"
  /\ k < Len(ys)
  /\ index(values, ys[k + 1], i) # NotFound
  /\ i' = index(values, ys[k + 1], i)
  /\ x' = Append(x, i')
  /\ k' = k + 1
  /\ UNCHANGED <<script, pc, values, ys, x_result, scatter_png, plot_png>>
  /\ UNCHANGED generateVars

\* variant: "except ValueError: continue", a missing target is skipped
LoopRaiseSkip ==
  /\ script = "redraw" /\ pc = "find_indices"
  /\ k < Len(ys)
  /\ index(values, ys[k + 1], i) = NotFound
  /\ k' = k + 1
  /\ UNCHANGED <<script, pc, values, ys, x, i, x_result, scatter_png, plot_png>>
  /\ UNCHANGED <<Y, NY, noise, numbers_json, numbers_png>>

\* one iteration in which list.index raises ValueError: the exception
\* leaves find_indices and the script, nothing is assigned
LoopRaise ==
  /\ script = "redraw" /\ pc = "find_indices"
  /\ k < Len(ys)
  /\ index(values, ys[k + 1], i) = NotFound
  /\ pc' = "ValueError"
  /\ UNCHANGED <<script, values, ys, x, i, k, x_result, scatter_png, plot_png>>
  /\ UNCHANGED generateVars

\* "return x" and the assignment x = find_indices(values, y)
Return ==
  /\ script = "redraw" /\ pc = "find_indices"
  /\ k = Len(ys)
  /\ x_result' = [assigned |-> TRUE, list |-> x]
  /\ pc' = "returned"
  /\ UNCHANGED <<script, values, ys, x, i, k, scatter_png, plot_png>>
  /\ UNCHANGED generateVars

\* first chart: series line with the matched points overlaid
SaveScatter ==
  /\ script = "redraw" /\ pc = "returned"
  /\ scatter_png' = TRUE
  /\ pc' = "scatter_saved"
  /\ UNCHANGED <<script, values, ys, x, i, k, x_result, plot_png>>
  /\ UNCHANGED generateVars

\* second chart: the matched points only
SavePlot ==
  /\ script = "redraw" /\ pc = "scatter_saved"
  /\ plot_png' = TRUE
  /\ pc' = "done"
  /\ UNCHANGED <<script, values, ys, x, i, k, x_result, scatter_png>>
  /\ UNCHANGED generateVars

InitRedraw ==
  /\ script = "redraw"
  /\ pc = "find_indices"
  /\ values \in SeqsUpTo(Vals, MaxLen)
  /\ ys \in SeqsUpTo(Vals, MaxTargets)
  /\ x = <<>>
  /\ i = 0
  /\ k = 0
  /\ x_result = NoResult
  /\ scatter_png = FALSE
  /\ plot_png = FALSE
  /\ Y = 0 /\ NY = 0
  /\ noise = <<>>
  /\ numbers_json = NoFile
  /\ numbers_png = FALSE

\* ------------------------------------------------------------------------
\* generate.py
\* ------------------------------------------------------------------------

\* fixed-point resolution standing for float64: a float v is held as v * Scale
Scale == 1000

Float(m) == [kind |-> "float", num |-> m]
Integer(v) == [kind |-> "int", num |-> v]

n == Y * NY

\* variant: np.arange(1, n)
arange_from_one(m) == [j \in 1..(m - 1) |-> j]

\* np.arange(n)
arange(m) == [j \in 1..m |-> j - 1]

t == arange(n)

\* np.sin on [0, 0.5], to the resolution of the model
sin(a) == a - (a * a * a) \div (6 * Scale * Scale)

\* f(t), elementwise over the array t with the array noise
f(tt) ==
  [j \in 1..Len(tt) |->
     Float(100 * Scale
           + 200 * (((n - tt[j]) * Scale) \div n)
           + 50 * (sin(((Scale \div 2) * tt[j]) \div n) + Scale)
           + 75 * noise[j])]

\* variant: np.floor(values).astype(int), rounding toward minus infinity
astype_floor(v) == [kind |-> "int", num |-> v.num \div Scale]

\* ndarray.astype(int) on one element: conversion truncates toward zero
astype_int(v) ==
  IF v.num >= 0 THEN Integer(v.num \div Scale)
  ELSE Integer(-((-v.num) \div Scale))

\* rng.standard_normal(size=n)
DrawNoise ==
  /\ script = "generate" /\ pc = "start"
  /\ noise' \in [1..n -> NoiseSet]
  /\ pc' = "noise_drawn"
  /\ UNCHANGED <<script, values, Y, NY, numbers_json, numbers_png>>
  /\ UNCHANGED <<ys, x, i, k, x_result, scatter_png, plot_png>>

\* values = f(t)
Evaluate ==
  /\ script = "generate" /\ pc = "noise_drawn"
  /\ values' = f(t)
  /\ pc' = "evaluated"
  /\ UNCHANGED <<script, Y, NY, noise, numbers_json, numbers_png>>
  /\ UNCHANGED <<ys, x, i, k, x_result, scatter_png, plot_png>>

\* json.dump(values.astype(int).tolist(), ...)
Dump ==
  /\ script = "generate" /\ pc = "evaluated"
  /\ numbers_json' = [written |-> TRUE,
                      array |-> [j \in 1..Len(values) |-> astype_int(values[j])]]
  /\ pc' = "dumped"
  /\ UNCHANGED <<script, values, Y, NY, noise, numbers_png>>
  /\ UNCHANGED <<ys, x, i, k, x_result, scatter_png, plot_png>>

\* plot of the float values against t, saved as numbers.png
SaveNumbersPng ==
  /\ script = "generate" /\ pc = "dumped"
  /\ numbers_png' = TRUE
  /\ pc' = "done"
  /\ UNCHANGED <<script, values, Y, NY, noise, numbers_json>>
  /\ UNCHANGED <<ys, x, i, k, x_result, scatter_png, plot_png>>

InitGenerate ==
  /\ script = "generate"
  /\ pc = "start"
  /\ Y \in 1..MaxY
  /\ NY \in 1..MaxNY
  /\ noise = <<>>
  /\ values = <<>>
  /\ numbers_json = NoFile
  /\ numbers_png = FALSE
  /\ ys = <<>>
  /\ x = <<>>
  /\ i = 0
  /\ k = 0
  /\ x_result = NoResult
  /\ scatter_png = FALSE
  /\ plot_png = FALSE

\* ------------------------------------------------------------------------
\* specification
\* ------------------------------------------------------------------------

Init == InitRedraw \/ InitGenerate

Next ==
  \/ LoopMatch
  \/ LoopRaise
  \/ Return
  \/ SaveScatter
  \/ SavePlot
  \/ DrawNoise
  \/ Evaluate
  \/ Dump
  \/ SaveNumbersPng

Spec == Init /\ [][Next]_vars

\* a script is one thread that always executes its next statement
FairSpec == Spec /\ WF_vars(Next)

\* ------------------------------------------------------------------------
\* properties
\* ------------------------------------------------------------------------

\* the smallest position q >= p of lst holding y, stated as a set minimum
FirstAtOrAfter(lst, y, p) ==
  LET hits == {q \in p..(Len(lst) - 1) : lst[q + 1] = y}
  IN IF hits = {} THEN NotFound
     ELSE CHOOSE q \in hits : \A r \in hits : q <= r

\* the locator as the specification writes it: each search starts one
\* position after the previous match
RECURSIVE Locate(_, _, _, _, _)
Locate(lst, targets, j, cursor, acc) ==
  IF j > Len(targets) THEN [ok |-> TRUE, list |-> acc, at |-> Len(targets)]
  ELSE LET q == FirstAtOrAfter(lst, targets[j], cursor)
       IN IF q = NotFound THEN [ok |-> FALSE, list |-> acc, at |-> j - 1]
          ELSE Locate(lst, targets, j + 1, q + 1, Append(acc, q))

Specified == Locate(values, ys, 1, 0, <<>>)

NoConsecutiveEqual(targets) ==
  \A a \in 1..(Len(targets) - 1) : targets[a] # targets[a + 1]

Returned == script = "redraw" /\ x_result.assigned
Failed == script = "redraw" /\ pc = "ValueError"

\* C1: whenever find_indices returns (and the specified algorithm succeeds on
\* the same input), the returned Index List is the one of the specified
\* algorithm, whose searches start at previous match + 1.
C1_SpecifiedIndexList ==
  (Returned /\ Specified.ok) => x_result.list = Specified.list

C3_LengthAndOrder ==
  Returned =>
    /\ Len(x_result.list) = Len(ys)
    /\ \A a \in 1..(Len(x_result.list) - 1) :
         x_result.list[a] <= x_result.list[a + 1]

C3_Witness ==
  /\ Returned /\ Len(ys) = 3
  /\ x_result.list[1] = x_result.list[2]
  /\ x_result.list[2] < x_result.list[3]

\* C4: every entry of a returned Index List is a position of the Series
\* holding its target, and the first such position at or after the previous
\* entry (at or after 0 for the first entry).
C4_FirstAtOrAfterPrevious ==
  Returned =>
    /\ Len(x_result.list) = Len(ys)
    /\ \A j \in 1..Len(ys) :
         LET prev == IF j = 1 THEN 0 ELSE x_result.list[j - 1]
             q == x_result.list[j]
         IN /\ q \in 0..(Len(values) - 1)
            /\ values[q + 1] = ys[j]
            /\ prev <= q
            /\ \A p \in prev..(q - 1) : values[p + 1] # ys[j]

\* an entry that skips positions, with a later occurrence of its target
C4_Witness ==
  /\ Returned /\ Len(ys) >= 2
  /\ x_result.list[2] > x_result.list[1] + 1
  /\ \E p \in (x_result.list[2] + 1)..(Len(values) - 1) : values[p + 1] = ys[2]

\* C5: no Series position is matched for two Target List entries: the
\* entries of a returned Index List are pairwise distinct.
C5_NoRematch ==
  Returned =>
    \A a, b \in 1..Len(x_result.list) :
      a # b => x_result.list[a] # x_result.list[b]

\* C6: no step of redraw.py changes the Series or the Target List, and a
\* step of the lookup loop changes nothing but the cursor, the list under
\* construction and the loop position (or raises).
C6_NoSideEffects ==
  [][script = "redraw" =>
       /\ values' = values
       /\ ys' = ys
       /\ pc = "find_indices" =>
            /\ scatter_png' = scatter_png /\ plot_png' = plot_png
            /\ (pc' = "find_indices" => x_result' = x_result)]_vars

\* the lookup has ended, by failing, after matches on a non-empty Series
C6_Witness ==
  script = "redraw" /\ pc = "ValueError" /\ Len(x) = 2 /\ Len(values) >= 3

\* C7: every run reaches its end and stays there; the lookup ends either
\* with a complete Index List or with the ValueError, never both or neither.
C7_Terminates ==
  /\ <>[](pc \in {"done", "ValueError"})
  /\ [](script = "redraw" =>
          \/ pc = "find_indices" /\ ~x_result.assigned
          \/ pc = "ValueError" /\ ~x_result.assigned
          \/ /\ pc \in {"returned", "scatter_saved", "done"}
             /\ x_result.assigned
             /\ Len(x_result.list) = Len(ys))

C7_Witness ==
  script = "redraw" /\ pc = "done" /\ Len(ys) >= 2 /\ Len(values) >= 3

\* C8: the dumped Series has exactly n = Y * NY elements, one per index t,
\* and every element is an integer.
C8_LengthAndIntegers ==
  numbers_json.written =>
    /\ Y * NY > 0
    /\ Len(numbers_json.array) = Y * NY
    /\ Len(values) = Y * NY
    /\ \A j \in 1..(Y * NY) : numbers_json.array[j].kind = "int"

C8_Witness ==
  numbers_json.written /\ Y = 2 /\ NY = 2 /\ Len(numbers_json.array) = 4

\* the closed form of the specification at index tt of nn points with noise
\* value nz, in units of 1 / Scale
ClosedForm(tt, nn, nz) ==
  Scale * 100
  + (((nn - tt) * Scale) \div nn) * 200
  + (sin((tt * (Scale \div 2)) \div nn) + Scale) * 50
  + nz * 75

\* C9: the dumped element at t is the closed form at (t, n, noise[t])
\* truncated toward zero: it has the sign of the value and the largest
\* magnitude not above the value's.
C9_TruncatedClosedForm ==
  numbers_json.written =>
    \A j \in 1..(Y * NY) :
      LET v == ClosedForm(j - 1, Y * NY, noise[j])
          e == numbers_json.array[j].num
      IN IF v >= 0
         THEN e >= 0 /\ e * Scale <= v /\ v < (e + 1) * Scale
         ELSE e <= 0 /\ (e - 1) * Scale < v /\ v <= e * Scale

\* a negative value with a fractional part, and a positive one whose
\* fractional part is above one half
C9_Witness ==
  /\ numbers_json.written
  /\ \E j \in 1..Len(values) :
       values[j].num < 0 /\ (-values[j].num) % Scale # 0
  /\ \E j \in 1..Len(values) :
       values[j].num > 0 /\ values[j].num % Scale > Scale \div 2

\* C10: when no two consecutive targets are equal, find_indices ends as the
\* specified algorithm (searches starting one past the previous match) does:
\* the same Index List, or a failure at the same target.
C10_SameAsCursorPlusOne ==
  (script = "redraw" /\ NoConsecutiveEqual(ys)) =>
    /\ Returned => (Specified.ok /\ x_result.list = Specified.list)
    /\ Failed => (~Specified.ok /\ Specified.at = k)

\* a value is a target twice, not consecutively, and both are found
C10_Witness ==
  /\ Returned /\ NoConsecutiveEqual(ys)
  /\ Len(ys) = 3 /\ ys[1] = ys[3]

====
